---- MODULE Spec2Model ----
(***************************************************************************)
(* Storage core of the QA dashboard backend: the unified storage facade    *)
(* (services/storageService.js), its provider selection and fallback, and  *)
(* the three record-store adapters (Google Drive, OneDrive, local files).  *)
(*                                                                         *)
(* Strings the code inspects character by character (provider names that   *)
(* are lower-cased, test names that are sanitized and searched) are        *)
(* sequences of one-character strings.  Strings the code only compares     *)
(* for equality are TLA+ strings.                                          *)
(***************************************************************************)
EXTENDS Integers, Sequences, FiniteSets, TLC

\* ------------------------------------------------------------------ bounds

\* switchProvider calls per run
MaxSwitches == 1
\* "QA Dashboard" folders one cloud account may come to hold
MaxFolders == 4

\* the clock (Date.now(), provider creation times, created_at) runs over 0..MaxTime
MaxTime == 1
\* objects one results container may hold
MaxObjects == 2
\* non-JSON objects put into a results container from outside
MaxCorrupt == 1
\* records in a list handed to the aggregation
MaxListLen == 4
\* characters of a test name whose object name is generated
MaxNameLen == 3

\* ----------------------------------------------------------------- strings

UpperCase == <<"A","B","C","D","E","F","G","H","I","J","K","L","M",
               "N","O","P","Q","R","S","T","U","V","W","X","Y","Z">>
LowerCase == <<"a","b","c","d","e","f","g","h","i","j","k","l","m",
               "n","o","p","q","r","s","t","u","v","w","x","y","z">>
Digits == <<"0","1","2","3","4","5","6","7","8","9">>

Range(s) == {s[i] : i \in DOMAIN s}

\* String.prototype.toLowerCase, one character
LowerChar(c) ==
    IF c \in Range(UpperCase)
    THEN LowerCase[CHOOSE i \in DOMAIN UpperCase : UpperCase[i] = c]
    ELSE c

\* String.prototype.toLowerCase
ToLowerCase(s) == [i \in DOMAIN s |-> LowerChar(s[i])]

GoogleDrive == <<"g","o","o","g","l","e","-","d","r","i","v","e">>
OneDrive == <<"o","n","e","d","r","i","v","e">>
Local == <<"l","o","c","a","l">>
\* the value of a field that is null in the code
Null == <<"n","u","l","l","!">>
\* an argument that is not a string (undefined)
Undefined == <<"u","n","d","e","f","!">>

CloudProviders == {GoogleDrive, OneDrive}
Providers == {GoogleDrive, OneDrive, Local}

\* character codes, as far as file names are ordered by them
CharCode(c) ==
    IF c = "-" THEN 45
    ELSE IF c = "." THEN 46
    ELSE IF c \in Range(Digits)
         THEN 47 + (CHOOSE i \in DOMAIN Digits : Digits[i] = c)
    ELSE IF c \in Range(UpperCase)
         THEN 64 + (CHOOSE i \in DOMAIN UpperCase : UpperCase[i] = c)
    ELSE IF c \in Range(LowerCase)
         THEN 96 + (CHOOSE i \in DOMAIN LowerCase : LowerCase[i] = c)
    ELSE 32

\* the class \w: letters, digits and the underscore
IsWordChar(c) == c \in Range(UpperCase) \cup Range(LowerCase) \cup Range(Digits) \cup {"_"}

\* the class [a-zA-Z0-9]
IsAlnum(c) == c \in Range(UpperCase) \cup Range(LowerCase) \cup Range(Digits)

\* testData.test_name.replace(/[^a-zA-Z0-9]/g, '-')
Sanitize(s) == [i \in DOMAIN s |-> IF IsAlnum(s[i]) THEN s[i] ELSE "-"]

\* String.prototype.includes
Includes(s, t) ==
    \E i \in 0..(Len(s) - Len(t)) : \A j \in 1..Len(t) : s[i + j] = t[j]

\* ------------------------------------------------------------ configuration

\* values of STORAGE_PROVIDER the model starts with: unset/empty, the three
\* supported names (one in mixed case) and an unsupported name
StorageProviderValues ==
    { <<>>, GoogleDrive, <<"O","n","e","D","r","i","v","e">>, Local, <<"s","3">> }

\* process.env and the credentials files, as far as the code reads them: a
\* variable is TRUE when it is set to a non-empty value
Environments ==
    [ STORAGE_PROVIDER : StorageProviderValues,
      GOOGLE_DRIVE_CREDENTIALS : BOOLEAN,
      GOOGLE_APPLICATION_CREDENTIALS : BOOLEAN,
      ONEDRIVE_TENANT_ID : BOOLEAN,
      ONEDRIVE_CLIENT_ID : BOOLEAN,
      ONEDRIVE_CLIENT_SECRET : BOOLEAN,
      googleCredentialsFile : BOOLEAN,
      oneDriveCredentialsFile : BOOLEAN ]

VARIABLES
    env,              \* process.env and credentials files (fixed per run)
    providerName,     \* UnifiedStorageService.providerName
    storageProvider,  \* UnifiedStorageService.storageProvider (which adapter)
    pc,               \* position of the facade's initialize() and switchProvider()
    adapter,          \* per cloud adapter: client handle set?, folderId
    inv,              \* per cloud adapter: its initialize() invocations in flight
    folders,          \* per cloud account: number of "QA Dashboard" folders
    startup,          \* what the startup initialize() went through
    sw,               \* the switchProvider call in flight or last returned
    switches          \* switchProvider calls made so far

lifecycleVars == <<env, providerName, storageProvider, pc, adapter, inv,
                   folders, startup, sw, switches>>

VARIABLES
    now,              \* the clock: Date.now() and the providers' clocks
    objects,          \* per provider: the objects of its results container
    nextId,           \* per cloud provider: the next object id it assigns
    stored,           \* the records stored so far, with their store times
    clean,            \* nothing but successful stores has touched the containers
    lastStore,        \* the last storeTestResult call, until the next write
    lastRead,         \* the last read call and what it returned
    lastCleanup       \* the last cleanupOldResults call, until the next call

storageVars == <<now, objects, nextId, stored, clean, lastStore, lastRead, lastCleanup>>

VARIABLES
    arg,              \* the argument of a function looked at on its own
    out               \* what it returned, once it has been called

functionVars == <<arg, out>>

vars == <<lifecycleVars, storageVars, functionVars>>

Tasks == {"startup", "switch"}
\* who started an adapter's initialize(): its constructor, the facade's
\* startup initialize(), or a switchProvider call
Slots == {"ctor", "startup", "switch"}

\* ------------------------------------------------------- provider selection

\* the selection with the two credential checks in the other order
SelectProviderOneDriveFirst(e) ==
    IF e.STORAGE_PROVIDER # <<>>
    THEN ToLowerCase(e.STORAGE_PROVIDER)
    ELSE IF e.ONEDRIVE_TENANT_ID /\ e.ONEDRIVE_CLIENT_ID /\ e.ONEDRIVE_CLIENT_SECRET
         THEN OneDrive
         ELSE IF e.GOOGLE_DRIVE_CREDENTIALS \/ e.GOOGLE_APPLICATION_CREDENTIALS
              THEN GoogleDrive
              ELSE Local

\* UnifiedStorageService.initialize, the selection
SelectProvider(e) ==
    IF e.STORAGE_PROVIDER # <<>>
    THEN ToLowerCase(e.STORAGE_PROVIDER)
    ELSE IF e.GOOGLE_DRIVE_CREDENTIALS \/ e.GOOGLE_APPLICATION_CREDENTIALS
         THEN GoogleDrive
         ELSE IF e.ONEDRIVE_TENANT_ID /\ e.ONEDRIVE_CLIENT_ID /\ e.ONEDRIVE_CLIENT_SECRET
              THEN OneDrive
              ELSE Local

\* GoogleDriveService.loadCredentials / OneDriveService.loadCredentials:
\* TRUE when credentials are returned, FALSE when it throws
LoadCredentials(a, e) ==
    IF a = GoogleDrive
    THEN e.GOOGLE_DRIVE_CREDENTIALS \/ e.googleCredentialsFile
    ELSE (e.ONEDRIVE_TENANT_ID /\ e.ONEDRIVE_CLIENT_ID /\ e.ONEDRIVE_CLIENT_SECRET)
         \/ e.oneDriveCredentialsFile

\* ------------------------------------------------------- facade life cycle

\* the synchronous head of an adapter's initialize(): loadCredentials either
\* throws (the invocation is rejected at once) or the client is built and the
\* folder list request goes out
InitializeHead(a, e) == IF LoadCredentials(a, e) THEN "list" ELSE "rejected"

\* sw: the arguments and the facade fields when switchProvider was entered,
\* whether the try block of initializeProvider threw during the call, the
\* value returned and the facade fields at the return
NoSwitch == [ state |-> "none", target |-> Null, beforeName |-> Null,
              beforeProvider |-> Null, failed |-> FALSE, result |-> FALSE,
              endName |-> Null, endProvider |-> Null ]

\* startup: whether the try block of initializeProvider threw during the
\* startup initialize(), whether initialize() rejected, and the facade fields
\* when it settled
NoStartup == [ failed |-> FALSE, surfaced |-> FALSE,
               endName |-> Null, endProvider |-> Null ]

\* The state once services/storageService.js has required both adapter
\* modules (each constructor has called its own initialize()) and the facade
\* constructor has set its two fields to null; initialize() is about to run.
LifecycleInit ==
    /\ env \in Environments
    /\ providerName = Null
    /\ storageProvider = Null
    /\ pc = [startup |-> "Unselected", switch |-> "Idle"]
    /\ adapter = [a \in CloudProviders |->
                    [client |-> LoadCredentials(a, env), folderId |-> 0]]
    /\ inv = [a \in CloudProviders |->
                [s \in Slots |-> IF s = "ctor" THEN InitializeHead(a, env) ELSE "idle"]]
    /\ folders \in [CloudProviders -> {0, 1}]
    /\ startup = NoStartup
    /\ sw = NoSwitch
    /\ switches = 0

\* No synchronous stretch of facade code is running: the event loop is free to
\* deliver a provider response or to start a request.
Quiescent == \A t \in Tasks : pc[t] \in {"Awaiting", "Ready", "Idle", "Rejected"}

\* where a facade task goes when initializeProvider returns normally
Done(t) == IF t = "startup" THEN "Ready" ELSE "Idle"

\* initializeProvider without its catch clause: the error leaves it, so that
\* initialize() rejects and switchProvider returns false
AfterProviderErrorRethrow(t) == IF t = "startup" THEN "Rejected" ELSE "Idle"

\* UnifiedStorageService.initializeProvider, the catch clause: any error of the
\* try block is logged and answered by the fallback to local storage
AfterProviderError(t) == "FallingBack"

\* initializeProvider has returned normally with the facade fields name and
\* prov: initialize() resolves, switchProvider returns true
Returned(t, name, prov) ==
    /\ startup' = IF t = "startup"
                  THEN [startup EXCEPT !.endName = name, !.endProvider = prov]
                  ELSE startup
    /\ sw' = IF t = "switch"
             THEN [sw EXCEPT !.state = "returned", !.result = TRUE,
                             !.endName = name, !.endProvider = prov]
             ELSE sw

\* the try block of initializeProvider threw while the facade fields were
\* name and prov
Threw(t, name, prov) ==
    /\ pc' = [pc EXCEPT ![t] = AfterProviderError(t)]
    /\ IF AfterProviderError(t) = "FallingBack"
       THEN /\ startup' = IF t = "startup"
                          THEN [startup EXCEPT !.failed = TRUE] ELSE startup
            /\ sw' = IF t = "switch" THEN [sw EXCEPT !.failed = TRUE] ELSE sw
       ELSE \* the error leaves initializeProvider: initialize() logs and
            \* rethrows it, switchProvider catches it and returns false
            /\ startup' = IF t = "startup"
                          THEN [ failed |-> TRUE, surfaced |-> TRUE,
                                 endName |-> name, endProvider |-> prov ]
                          ELSE startup
            /\ sw' = IF t = "switch"
                     THEN [sw EXCEPT !.state = "returned", !.failed = TRUE,
                                     !.result = FALSE,
                                     !.endName = name, !.endProvider = prov]
                     ELSE sw

\* constructor -> initialize(): the call is entered
BeginInitialize ==
    /\ pc["startup"] = "Unselected"
    /\ pc' = [pc EXCEPT !["startup"] = "Selecting"]
    /\ UNCHANGED <<env, providerName, storageProvider, adapter, inv, folders,
                   startup, sw, switches>>

\* initialize(): the provider name is chosen
Select ==
    /\ pc["startup"] = "Selecting"
    /\ providerName' = SelectProvider(env)
    /\ pc' = [pc EXCEPT !["startup"] = "Initializing"]
    /\ UNCHANGED <<env, storageProvider, adapter, inv, folders, startup, sw, switches>>

\* initializeProvider(): the switch statement, up to its first await
InitializeProvider(t) ==
    /\ pc[t] = "Initializing"
    /\ IF providerName \in CloudProviders
       THEN /\ storageProvider' = providerName
            /\ IF LoadCredentials(providerName, env)
               THEN /\ adapter' = [adapter EXCEPT ![providerName].client = TRUE]
                    /\ inv' = [inv EXCEPT ![providerName][t] = "list"]
                    /\ pc' = [pc EXCEPT ![t] = "Awaiting"]
                    /\ UNCHANGED <<startup, sw>>
               ELSE /\ Threw(t, providerName, providerName)
                    /\ UNCHANGED <<adapter, inv>>
       ELSE IF providerName = Local
       THEN /\ storageProvider' = Local
            /\ pc' = [pc EXCEPT ![t] = Done(t)]
            /\ Returned(t, providerName, Local)
            /\ UNCHANGED <<adapter, inv>>
       ELSE \* default: throw new Error('Unsupported storage provider')
            /\ Threw(t, providerName, storageProvider)
            /\ UNCHANGED <<storageProvider, adapter, inv>>
    /\ UNCHANGED <<env, providerName, folders, switches>>

\* a catch clause that installs the local adapter and leaves the name as it is
FallbackKeepsName(t) ==
    /\ pc[t] = "FallingBack"
    /\ storageProvider' = Local
    /\ pc' = [pc EXCEPT ![t] = Done(t)]
    /\ Returned(t, providerName, Local)
    /\ UNCHANGED <<env, providerName, adapter, inv, folders, switches>>

\* a catch clause that tries the selected provider once more
FallbackRetry(t) ==
    /\ pc[t] = "FallingBack"
    /\ pc' = [pc EXCEPT ![t] = "Initializing"]
    /\ UNCHANGED <<env, providerName, storageProvider, adapter, inv, folders,
                   startup, sw, switches>>

\* initializeProvider(): the body of the catch clause
Fallback(t) ==
    /\ pc[t] = "FallingBack"
    /\ providerName' = Local
    /\ storageProvider' = Local
    /\ pc' = [pc EXCEPT ![t] = Done(t)]
    /\ Returned(t, Local, Local)
    /\ UNCHANGED <<env, adapter, inv, folders, switches>>

\* An adapter's initialize() invocation settles.  The constructor's invocation
\* is awaited by nobody; the facade's continues the task that awaits it.
Settle(a, s, outcome) ==
    IF s = "ctor"
    THEN /\ inv' = [inv EXCEPT ![a][s] = outcome]
         /\ UNCHANGED <<pc, startup, sw>>
    ELSE /\ inv' = [inv EXCEPT ![a][s] = "idle"]
         /\ IF outcome = "resolved"
            THEN /\ pc' = [pc EXCEPT ![s] = Done(s)]
                 /\ Returned(s, providerName, storageProvider)
            ELSE Threw(s, providerName, storageProvider)

\* getOrCreateQAFolder: the answer to the folder search arrives
ListResponse(a, s) ==
    /\ Quiescent
    /\ inv[a][s] = "list"
    /\ \/ \* the request fails (bad credentials, provider unreachable)
          /\ Settle(a, s, "rejected")
          /\ UNCHANGED <<adapter, folders>>
       \/ \* a folder exists: files[0].id is cached
          /\ folders[a] > 0
          /\ \E f \in 1..folders[a] :
                adapter' = [adapter EXCEPT ![a].folderId = f]
          /\ Settle(a, s, "resolved")
          /\ UNCHANGED folders
       \/ \* none exists: the create request goes out
          /\ folders[a] = 0
          /\ inv' = [inv EXCEPT ![a][s] = "create"]
          /\ UNCHANGED <<adapter, folders, pc, startup, sw>>
    /\ UNCHANGED <<env, providerName, storageProvider, switches>>

\* getOrCreateQAFolder: the answer to the folder creation arrives
CreateResponse(a, s) ==
    /\ Quiescent
    /\ inv[a][s] = "create"
    /\ \/ /\ Settle(a, s, "rejected")
          /\ UNCHANGED <<adapter, folders>>
       \/ /\ folders[a] < MaxFolders
          /\ folders' = [folders EXCEPT ![a] = @ + 1]
          /\ adapter' = [adapter EXCEPT ![a].folderId = folders[a] + 1]
          /\ Settle(a, s, "resolved")
    /\ UNCHANGED <<env, providerName, storageProvider, switches>>

\* arguments switchProvider is called with
SwitchArguments ==
    { GoogleDrive, <<"O","N","E","D","R","I","V","E">>, Local, <<"s","3">>, Undefined }

\* switchProvider(newProvider), up to the call of initializeProvider
SwitchProvider(newProvider) ==
    /\ Quiescent
    /\ pc["startup"] \in {"Awaiting", "Ready"}
    /\ pc["switch"] = "Idle"
    /\ switches < MaxSwitches
    /\ switches' = switches + 1
    /\ IF newProvider = Undefined
       THEN \* newProvider.toLowerCase() throws a TypeError inside the try:
            \* the catch clause returns false
            /\ sw' = [ state |-> "returned", target |-> newProvider,
                       beforeName |-> providerName, beforeProvider |-> storageProvider,
                       failed |-> TRUE, result |-> FALSE,
                       endName |-> providerName, endProvider |-> storageProvider ]
            /\ UNCHANGED <<providerName, pc>>
       ELSE /\ providerName' = ToLowerCase(newProvider)
            /\ pc' = [pc EXCEPT !["switch"] = "Initializing"]
            /\ sw' = [ state |-> "pending", target |-> newProvider,
                       beforeName |-> providerName, beforeProvider |-> storageProvider,
                       failed |-> FALSE, result |-> FALSE,
                       endName |-> Null, endProvider |-> Null ]
    /\ UNCHANGED <<env, storageProvider, adapter, inv, folders, startup>>

\* getProviderDescription()
GetProviderDescription ==
    IF providerName = GoogleDrive THEN "Google Drive Cloud Storage"
    ELSE IF providerName = OneDrive THEN "Microsoft OneDrive Cloud Storage"
    ELSE IF providerName = Local THEN "Local File System Storage"
    ELSE "Unknown Storage Provider"

\* getProviderInfo(): synchronous, it reads the facade's fields as they are
GetProviderInfo ==
    [ name |-> providerName,
      type |-> IF providerName = Local THEN "local" ELSE "cloud",
      description |-> GetProviderDescription ]

LifecycleNext ==
    \/ BeginInitialize
    \/ Select
    \/ \E t \in Tasks : InitializeProvider(t)
    \/ \E t \in Tasks : Fallback(t)
    \/ \E a \in CloudProviders, s \in Slots : ListResponse(a, s)
    \/ \E a \in CloudProviders, s \in Slots : CreateResponse(a, s)
    \/ \E p \in SwitchArguments : SwitchProvider(p)

\* ---------------------------------------------------------------- records

Passed == <<"p","a","s","s","e","d">>
Failed == <<"f","a","i","l","e","d">>
Skipped == <<"s","k","i","p","p","e","d">>
Blocked == <<"b","l","o","c","k","e","d">>
\* a status outside the four-value enum
Flaky == <<"f","l","a","k","y">>
Jest == <<"j","e","s","t">>
Mocha == <<"m","o","c","h","a">>
Ann == <<"A","n","n">>
Bob == <<"B","o","b">>
Web == <<"W","e","b">>
Api == <<"A","p","i">>
LoginTest == <<"L","o","g","i","n"," ","T","e","s","t">>
PayFlow == <<"P","a","y","/","F","l","o","w">>

\* a field the record does not have (undefined)
Missing == -1
\* a criteria date that is absent
NoDate == -1
\* an absent string (undefined or ''), falsy in the code's tests
NoText == <<>>

\* the records clients upload, before created_at is chosen
RecordPool ==
    { [ test_name |-> LoginTest, status |-> Passed, execution_time |-> 10,
        framework |-> Jest, team_member_name |-> Ann, project_name |-> Web ],
      [ test_name |-> PayFlow, status |-> Failed, execution_time |-> 25,
        framework |-> Mocha, team_member_name |-> Bob, project_name |-> Api ] }

\* testData as handed to storeTestResult
TestData(r, createdAt) ==
    [ test_name |-> r.test_name, status |-> r.status,
      execution_time |-> r.execution_time, framework |-> r.framework,
      team_member_name |-> r.team_member_name, project_name |-> r.project_name,
      created_at |-> createdAt, storedAt |-> Missing, storageType |-> NoText ]

\* the content of an object that is not a record
NoData == TestData([ test_name |-> NoText, status |-> NoText,
                     execution_time |-> Missing, framework |-> NoText,
                     team_member_name |-> NoText, project_name |-> NoText ], Missing)

\* the text of a non-JSON object
CorruptText == <<"l","o","g","i","n"," ","{">>

NoProperties == [ set |-> FALSE, testName |-> NoText, status |-> NoText,
                  teamMember |-> NoText, project |-> NoText,
                  framework |-> NoText, timestamp |-> Missing ]

\* the FilterCriteria the model reads with
NoCriteria == [ startDate |-> NoDate, endDate |-> NoDate, status |-> NoText,
                teamMember |-> NoText, project |-> NoText, searchTerm |-> NoText ]

\* the FilterCriteria the model reads with: none, each field alone, a window
\* of dates, and all fields together
Criteria ==
    { NoCriteria,
      [NoCriteria EXCEPT !.startDate = 1],
      [NoCriteria EXCEPT !.endDate = 0],
      [NoCriteria EXCEPT !.startDate = 0, !.endDate = 1],
      [NoCriteria EXCEPT !.status = Passed],
      [NoCriteria EXCEPT !.teamMember = Ann],
      [NoCriteria EXCEPT !.project = Web],
      [NoCriteria EXCEPT !.searchTerm = <<"l","o","g","i","n">>],
      [ startDate |-> 0, endDate |-> 0, status |-> Passed, teamMember |-> Ann,
        project |-> Web, searchTerm |-> <<"l","o","g","i","n">> ] }

SearchTerms == { <<"l","o","g","i","n">>, <<"B","O","B">>, <<"t","e","s","t">> }

\* the daysToKeep arguments cleanupOldResults is called with (Missing: none)
DaysToKeepValues == {Missing, 0, 1}

\* ---------------------------------------------------------- object names

\* `test-result-${Date.now()}-${sanitized}.json`
ResultName(ms, testName) ==
    [ kind |-> "test-result", ms |-> ms, tail |-> Sanitize(testName) ]

\* the name of an object put into the container from outside, e.g. corrupt-1
OtherName(k) == [ kind |-> "corrupt", ms |-> k, tail |-> <<>> ]

\* the text of an object name, the clock value standing for the epoch
\* milliseconds
NameText(name) ==
    (IF name.kind = "test-result"
     THEN <<"t","e","s","t","-","r","e","s","u","l","t">>
     ELSE <<"c","o","r","r","u","p","t">>)
    \o <<"-", Digits[name.ms + 1], "-">> \o name.tail \o <<".","j","s","o","n">>

\* byte order of two sanitized tails, each followed by ".json"
RECURSIVE TailLess(_, _)
TailLess(a, b) ==
    LET ca == IF a = <<>> THEN 46 ELSE CharCode(Head(a))
        cb == IF b = <<>> THEN 46 ELSE CharCode(Head(b))
    IN  IF a = <<>> /\ b = <<>> THEN FALSE
        ELSE IF ca # cb THEN ca < cb
        ELSE IF a = <<>> \/ b = <<>> THEN a = <<>>
        ELSE TailLess(Tail(a), Tail(b))

\* byte order of two file names, the order fs.readdirSync lists them in
\* ("corrupt-..." sorts before "test-result-...", epoch milliseconds of equal
\* width sort as numbers)
NameLess(m, n) ==
    IF m.kind # n.kind THEN m.kind = "corrupt"
    ELSE IF m.ms # n.ms THEN m.ms < n.ms
    ELSE TailLess(m.tail, n.tail)

\* --------------------------------------------------------------- containers

\* An object of a results container.  id: the id the cloud provider assigned
\* (0 for a local file, which has only its name); parent: the folder it is in;
\* createdTime: the provider's creation time; typed: its mimeType is
\* application/json (Drive), its name ends with .json (local files);
\* parsable: its content is JSON; data: the parsed content; raw: the text of a
\* non-JSON object; props: the Drive properties set at upload.
StoredObject(id, name, parent, createdTime, data, props) ==
    [ id |-> id, name |-> name, parent |-> parent, createdTime |-> createdTime,
      typed |-> TRUE, parsable |-> TRUE, data |-> data, raw |-> NoText,
      props |-> props ]

CorruptObject(id, name, parent, createdTime, typed) ==
    [ id |-> id, name |-> name, parent |-> parent, createdTime |-> createdTime,
      typed |-> typed, parsable |-> FALSE, data |-> NoData, raw |-> CorruptText,
      props |-> NoProperties ]

RECURSIVE SetToSeq(_)
SetToSeq(S) ==
    IF S = {} THEN <<>>
    ELSE LET x == CHOOSE y \in S : TRUE IN <<x>> \o SetToSeq(S \ {x})

Take(q, n) == SubSeq(q, 1, IF n < Len(q) THEN n ELSE Len(q))

\* one element of a result array: { ...testData, fileId, fileName, createdTime }
Entry(d, fileId, fileName, createdTime) ==
    [ test_name |-> d.test_name, status |-> d.status,
      execution_time |-> d.execution_time, framework |-> d.framework,
      team_member_name |-> d.team_member_name, project_name |-> d.project_name,
      created_at |-> d.created_at, storedAt |-> d.storedAt,
      storageType |-> d.storageType,
      fileId |-> fileId, fileName |-> fileName, createdTime |-> createdTime ]

\* what a read returns: a value, or a thrown error
Ok(v) == [ok |-> TRUE, value |-> v]
Throw == [ok |-> FALSE, value |-> <<>>]

\* The provider's part in one read: list: the list request fails; failed: the
\* objects whose download (read) fails; dates: the date conditions written
\* into the OneDrive request path take effect (the Graph client's later
\* .filter() call may replace them).
NoFailure == [list |-> FALSE, failed |-> {}, dates |-> TRUE]

\* the results left in the order the directory listing gave them (no sort)
InsertLast(sorted, e) == Append(sorted, e)

\* results.sort((a, b) => new Date(b.createdTime) - new Date(a.createdTime)),
\* a stable sort: insertion behind the elements that are not older
InsertNewestFirst(sorted, e) ==
    LET k == Cardinality({i \in DOMAIN sorted : sorted[i].createdTime >= e.createdTime})
    IN  SubSeq(sorted, 1, k) \o <<e>> \o SubSeq(sorted, k + 1, Len(sorted))

RECURSIVE SortNewestFirst(_)
SortNewestFirst(q) ==
    IF q = <<>> THEN <<>>
    ELSE InsertNewestFirst(SortNewestFirst(SubSeq(q, 1, Len(q) - 1)), q[Len(q)])

\* the provider's answer to orderBy 'createdTime desc' / 'createdDateTime
\* desc'; objects created at the same time come in the order of their ids
NewerFirst(f, g) ==
    IF f.createdTime # g.createdTime THEN f.createdTime > g.createdTime
    ELSE f.id < g.id

ListedNewestFirst(S) == SortSeq(SetToSeq(S), NewerFirst)

\* ------------------------------------------------------------ local adapter

FileNameLess(f, g) == NameLess(f.name, g.name)

\* fs.readdirSync(storageDir)
LocalListing(files) == SortSeq(SetToSeq(files), FileNameLess)

\* localStorageProvider.getTestResults, the filters applied to one parsed file
LocalPasses(d, filters) ==
    /\ ~(filters.startDate # NoDate /\ d.created_at < filters.startDate)
    /\ ~(filters.endDate # NoDate /\ d.created_at > filters.endDate)
    /\ ~(filters.status # NoText /\ d.status # filters.status)
    /\ ~(filters.teamMember # NoText /\ d.team_member_name # filters.teamMember)
    /\ ~(filters.project # NoText /\ d.project_name # filters.project)

LocalEntry(f) == Entry(f.data, f.name, f.name, f.data.created_at)

\* the read without the try/catch around one file: a file that cannot be read
\* or parsed makes the whole read throw
LocalGetTestResultsNoCatch(files, filters, io) ==
    IF io.list \/ (\E f \in files : f.typed /\ (f \in io.failed \/ ~f.parsable))
    THEN Throw
    ELSE LET listing == LocalListing(files)
             Kept(f) == f.typed /\ LocalPasses(f.data, filters)
             kept == SelectSeq(listing, Kept)
         IN  Ok(SortNewestFirst([i \in DOMAIN kept |-> LocalEntry(kept[i])]))

\* localStorageProvider.getTestResults
LocalGetTestResults(files, filters, io) ==
    IF io.list THEN Throw
    ELSE LET listing == LocalListing(files)
             \* a file that cannot be read or parsed is skipped with a warning
             Kept(f) == /\ f.typed
                        /\ f \notin io.failed
                        /\ f.parsable
                        /\ LocalPasses(f.data, filters)
             kept == SelectSeq(listing, Kept)
         IN  Ok(SortNewestFirst([i \in DOMAIN kept |-> LocalEntry(kept[i])]))

\* ----------------------------------------------------- Google Drive adapter

\* pageSize of the list request
GDrivePageSize == 1000

\* GoogleDriveService.getTestResults, the query string as Drive evaluates it
GDriveQuery(f, folderId, filters) ==
    /\ f.parent = folderId
    /\ f.typed
    /\ (filters.startDate # NoDate => f.createdTime >= filters.startDate)
    /\ (filters.endDate # NoDate => f.createdTime <= filters.endDate)
    /\ (filters.status # NoText =>
            (f.props.set /\ f.props.status = filters.status))
    /\ (filters.teamMember # NoText =>
            (f.props.set /\ f.props.teamMember = filters.teamMember))
    /\ (filters.project # NoText =>
            (f.props.set /\ f.props.project = filters.project))

CloudEntry(f) == Entry(f.data, f.id, f.name, f.createdTime)

\* the loop over the listed files, shared in form by both cloud adapters: a
\* file whose download or JSON.parse fails is skipped with a warning
CloudDownloadAll(listing, io) ==
    LET Kept(f) == f \notin io.failed /\ f.parsable
        kept == SelectSeq(listing, Kept)
    IN  [i \in DOMAIN kept |-> CloudEntry(kept[i])]

\* GoogleDriveService.getTestResults
GDriveGetTestResults(files, folderId, filters, io) ==
    IF io.list THEN Throw
    ELSE LET Q(f) == GDriveQuery(f, folderId, filters)
             listing == Take(ListedNewestFirst({f \in files : Q(f)}), GDrivePageSize)
         IN  Ok(CloudDownloadAll(listing, io))

\* --------------------------------------------------------- OneDrive adapter

\* OneDriveService.getTestResults, the request as Graph evaluates it
OneDriveQuery(f, folderId, filters, io) ==
    /\ f.parent = folderId
    /\ (io.dates /\ filters.startDate # NoDate) => f.createdTime >= filters.startDate
    /\ (io.dates /\ filters.endDate # NoDate) => f.createdTime <= filters.endDate

\* OneDriveService.getTestResults, the filters applied after the download
OneDriveResidual(e, filters) ==
    /\ (filters.status # NoText => e.status = filters.status)
    /\ (filters.teamMember # NoText => e.team_member_name = filters.teamMember)
    /\ (filters.project # NoText => e.project_name = filters.project)

\* OneDriveService.getTestResults
OneDriveGetTestResults(files, folderId, filters, io) ==
    IF io.list THEN Throw
    ELSE LET Q(f) == OneDriveQuery(f, folderId, filters, io)
             listing == ListedNewestFirst({f \in files : Q(f)})
             results == CloudDownloadAll(listing, io)
             R(e) == OneDriveResidual(e, filters)
         IN  Ok(SelectSeq(results, R))

\* ---------------------------------------------------------------- analytics

\* a count that takes every record for one of the given status
CountAll(results, st) == Len(results)

\* results.filter(r => r.status === st).length
CountStatus(results, st) == Cardinality({i \in DOMAIN results : results[i].status = st})

RECURSIVE SumExecutionTimeRaw(_)
\* the sum without the `|| 0`: a missing execution_time enters as it is
SumExecutionTimeRaw(results) ==
    IF results = <<>> THEN 0
    ELSE SumExecutionTimeRaw(SubSeq(results, 1, Len(results) - 1))
         + results[Len(results)].execution_time

RECURSIVE SumExecutionTime(_)
\* results.reduce((sum, r) => sum + (r.execution_time || 0), 0)
SumExecutionTime(results) ==
    IF results = <<>> THEN 0
    ELSE SumExecutionTime(SubSeq(results, 1, Len(results) - 1))
         + (IF results[Len(results)].execution_time = Missing
            THEN 0 ELSE results[Len(results)].execution_time)

RECURSIVE Distinct(_)
\* [...new Set(values)]: the values in the order of their first occurrence
Distinct(q) ==
    IF q = <<>> THEN <<>>
    ELSE LET front == Distinct(SubSeq(q, 1, Len(q) - 1))
         IN  IF q[Len(q)] \in Range(front) THEN front ELSE Append(front, q[Len(q)])

\* x / n cut off, not rounded
TruncDiv(x, n) == x \div n

\* Math.round(x / n) for x >= 0, n > 0
RoundDiv(x, n) == (2 * x + n) \div (2 * n)

\* the analytics object without the `results.length > 0 ?` guards: rate and
\* average of an empty list come out of a division by zero (NaN)
AggregateUnguarded(results) ==
    [ totalTests |-> Len(results),
      passedTests |-> CountStatus(results, Passed),
      failedTests |-> CountStatus(results, Failed),
      skippedTests |-> CountStatus(results, Skipped),
      blockedTests |-> CountStatus(results, Blocked),
      successRate |-> [text |-> TRUE,
                       hundredths |-> IF results = <<>> THEN Missing
                                      ELSE RoundDiv(CountStatus(results, Passed) * 10000,
                                                    Len(results))],
      frameworks |-> Distinct([i \in DOMAIN results |-> results[i].framework]),
      projects |-> Distinct([i \in DOMAIN results |-> results[i].project_name]),
      teamMembers |-> Distinct([i \in DOMAIN results |-> results[i].team_member_name]),
      avgExecutionTime |-> IF results = <<>> THEN Missing
                           ELSE RoundDiv(SumExecutionTime(results), Len(results)) ]

\* the analytics object computed in getAnalytics (the same lines in the three
\* adapters).  successRate is a string with two decimals, held in hundredths
\* (text = TRUE), or the number 0 for an empty list (text = FALSE).
Aggregate(results) ==
    LET n == Len(results)
        passed == CountStatus(results, Passed)
    IN  [ totalTests |-> n,
          passedTests |-> passed,
          failedTests |-> CountStatus(results, Failed),
          skippedTests |-> CountStatus(results, Skipped),
          blockedTests |-> CountStatus(results, Blocked),
          successRate |-> IF n > 0
                          THEN [text |-> TRUE, hundredths |-> RoundDiv(passed * 10000, n)]
                          ELSE [text |-> FALSE, hundredths |-> 0],
          frameworks |-> Distinct([i \in DOMAIN results |-> results[i].framework]),
          projects |-> Distinct([i \in DOMAIN results |-> results[i].project_name]),
          teamMembers |-> Distinct([i \in DOMAIN results |-> results[i].team_member_name]),
          avgExecutionTime |-> IF n > 0 THEN RoundDiv(SumExecutionTime(results), n) ELSE 0 ]

NoSummary == Aggregate(<<>>)

\* a summary whose successRate is rounded to a whole percent
AggregateWholePercent(results) ==
    [Aggregate(results) EXCEPT
        !.successRate = IF results = <<>> THEN @
                        ELSE [text |-> TRUE,
                              hundredths |-> 100 * RoundDiv(CountStatus(results, Passed) * 100,
                                                            Len(results))]]

\* the analytics object of GoogleDriveService.getAnalytics
GDriveAggregate(results) ==
    [ totalTests |-> Len(results),
      passedTests |-> Cardinality({i \in DOMAIN results : results[i].status = Passed}),
      failedTests |-> Cardinality({i \in DOMAIN results : results[i].status = Failed}),
      skippedTests |-> Cardinality({i \in DOMAIN results : results[i].status = Skipped}),
      blockedTests |-> Cardinality({i \in DOMAIN results : results[i].status = Blocked}),
      successRate |->
          IF Len(results) > 0
          THEN [text |-> TRUE,
                hundredths |->
                    RoundDiv(Cardinality({i \in DOMAIN results : results[i].status = Passed})
                                * 10000, Len(results))]
          ELSE [text |-> FALSE, hundredths |-> 0],
      frameworks |-> Distinct([i \in DOMAIN results |-> results[i].framework]),
      projects |-> Distinct([i \in DOMAIN results |-> results[i].project_name]),
      teamMembers |-> Distinct([i \in DOMAIN results |-> results[i].team_member_name]),
      avgExecutionTime |->
          IF Len(results) > 0
          THEN RoundDiv(SumExecutionTime(results), Len(results))
          ELSE 0 ]

\* the analytics object of OneDriveService.getAnalytics
OneDriveAggregate(results) ==
    LET total == Len(results)
        count(st) == Len(SelectSeq(results, LAMBDA r : r.status = st))
        map(field) == [i \in 1..total |-> results[i][field]]
    IN  [ totalTests |-> total,
          passedTests |-> count(Passed),
          failedTests |-> count(Failed),
          skippedTests |-> count(Skipped),
          blockedTests |-> count(Blocked),
          successRate |-> IF total > 0
                          THEN [text |-> TRUE,
                                hundredths |-> RoundDiv(count(Passed) * 10000, total)]
                          ELSE [text |-> FALSE, hundredths |-> 0],
          frameworks |-> Distinct(map("framework")),
          projects |-> Distinct(map("project_name")),
          teamMembers |-> Distinct(map("team_member_name")),
          avgExecutionTime |-> IF total > 0
                               THEN RoundDiv(SumExecutionTime(results), total)
                               ELSE 0 ]

\* the analytics object adapter a computes from the list getTestResults
\* returned
AggregateOf(a, results) ==
    CASE a = GoogleDrive -> GDriveAggregate(results)
      [] a = OneDrive -> OneDriveAggregate(results)
      [] OTHER -> Aggregate(results)

\* ------------------------------------------------------------------- search

\* localStorageProvider.searchTestResults, the filter over the results
LocalSearchMatch(e, searchTerm) ==
    \/ Includes(ToLowerCase(e.test_name), ToLowerCase(searchTerm))
    \/ Includes(ToLowerCase(e.team_member_name), ToLowerCase(searchTerm))
    \/ Includes(ToLowerCase(e.project_name), ToLowerCase(searchTerm))

\* localStorageProvider.searchTestResults
LocalSearchTestResults(files, searchTerm, io) ==
    LET r == LocalGetTestResults(files, NoCriteria, io)
        M(e) == LocalSearchMatch(e, searchTerm)
    IN  IF r.ok THEN Ok(SelectSeq(r.value, M)) ELSE Throw

\* The providers' own text search (Drive: name contains / fullText contains;
\* Graph: search(q=...)), which is not code of this repository: taken as a
\* case-insensitive match of the term in the object's name or anywhere in the
\* text values of its content.
NativeTextMatch(f, searchTerm) ==
    LET t == ToLowerCase(searchTerm)
        In(v) == Includes(ToLowerCase(v), t)
    IN  \/ In(NameText(f.name))
        \/ In(f.raw)
        \/ /\ f.parsable
           /\ \/ In(f.data.test_name)
              \/ In(f.data.status)
              \/ In(f.data.framework)
              \/ In(f.data.team_member_name)
              \/ In(f.data.project_name)

\* GoogleDriveService.searchTestResults
GDriveSearchTestResults(files, folderId, searchTerm, io) ==
    IF io.list THEN Throw
    ELSE LET Q(f) == f.parent = folderId /\ NativeTextMatch(f, searchTerm)
         IN  Ok(CloudDownloadAll(ListedNewestFirst({f \in files : Q(f)}), io))

OlderIdFirst(f, g) == f.id < g.id

\* OneDriveService.searchTestResults: the search request asks for no order;
\* the items come in the order of their ids
OneDriveSearchTestResults(files, folderId, searchTerm, io) ==
    IF io.list THEN Throw
    ELSE LET Q(f) == f.parent = folderId /\ NativeTextMatch(f, searchTerm)
         IN  Ok(CloudDownloadAll(SortSeq(SetToSeq({f \in files : Q(f)}), OlderIdFirst), io))

\* ------------------------------------------------------------------ facade

\* UnifiedStorageService.searchTestResults
SearchTestResultsOf(a, files, folderId, searchTerm, io) ==
    IF a = Local THEN LocalSearchTestResults(files, searchTerm, io)
    ELSE IF a = GoogleDrive THEN GDriveSearchTestResults(files, folderId, searchTerm, io)
    ELSE OneDriveSearchTestResults(files, folderId, searchTerm, io)

\* UnifiedStorageService.getTestResults: the call goes to the adapter in
\* storageProvider, which reads its own container and cached folder id
GetTestResultsOf(a, files, folderId, filters, io) ==
    IF a = GoogleDrive THEN GDriveGetTestResults(files, folderId, filters, io)
    ELSE IF a = OneDrive THEN OneDriveGetTestResults(files, folderId, filters, io)
    ELSE LocalGetTestResults(files, filters, io)

\* UnifiedStorageService.getAnalytics: each adapter aggregates what its own
\* getTestResults returns
GetAnalyticsOf(a, files, folderId, filters, io) ==
    LET r == GetTestResultsOf(a, files, folderId, filters, io)
    IN  IF r.ok THEN Ok(AggregateOf(a, r.value)) ELSE Throw

\* ------------------------------------------------------------------- writes

\* GoogleDriveService.storeTestResult, fileMetadata.properties
DriveProperties(d, t) ==
    [ set |-> TRUE, testName |-> d.test_name, status |-> d.status,
      teamMember |-> d.team_member_name, project |-> d.project_name,
      framework |-> d.framework, timestamp |-> t ]

\* GoogleDriveService.storeTestResult: files.create adds a file under a new
\* id, whatever files of that name the folder holds
GDriveStore(files, folderId, id, d, t) ==
    files \cup { StoredObject(id, ResultName(t, d.test_name), folderId, t, d,
                              DriveProperties(d, t)) }

\* OneDriveService.storeTestResult: the PUT to the path folder:/fileName:/content
\* creates the item, or replaces the content of the item of that name (which
\* keeps its id and creation time)
OneDriveStore(files, folderId, id, d, t) ==
    LET name == ResultName(t, d.test_name)
        old == {f \in files : f.parent = folderId /\ f.name = name}
    IN  IF old = {}
        THEN files \cup { StoredObject(id, name, folderId, t, d, NoProperties) }
        ELSE (files \ old)
             \cup { [f EXCEPT !.data = d, !.parsable = TRUE, !.raw = NoText] : f \in old }

\* localStorageProvider.storeTestResult: writeFileSync creates the file or
\* replaces the file of that name
LocalStore(files, d, t) ==
    LET name == ResultName(t, d.test_name)
        fileData == [d EXCEPT !.storedAt = t, !.storageType = Local]
    IN  {f \in files : f.name # name}
        \cup { StoredObject(0, name, 0, t, fileData, NoProperties) }

\* UnifiedStorageService.storeTestResult
StoreOf(a, files, folderId, id, d, t) ==
    IF a = GoogleDrive THEN GDriveStore(files, folderId, id, d, t)
    ELSE IF a = OneDrive THEN OneDriveStore(files, folderId, id, d, t)
    ELSE LocalStore(files, d, t)

\* ------------------------------------------------------------------ cleanup

\* daysToKeep = 90, the default of the parameter
DefaultDaysToKeep == 90

\* cutoffDate: now minus daysToKeep days, the clock counting days
CutoffDate(t, daysToKeep) ==
    t - (IF daysToKeep = Missing THEN DefaultDaysToKeep ELSE daysToKeep)

\* a loop that stops at the first delete that fails, the error leaving it
DeleteAllOrAbort(listing, io) ==
    LET bad == {i \in DOMAIN listing : listing[i] \in io.failed}
        upTo == IF bad = {} THEN Len(listing)
                ELSE (CHOOSE i \in bad : \A j \in bad : i <= j) - 1
    IN  [ok |-> bad = {}, deleted |-> {listing[i] : i \in 1..upTo}]

\* the loop over the files to delete: a file whose delete (for a local file:
\* whose read or unlink) fails is logged and left, the loop goes on
DeleteAll(listing, io) ==
    [ok |-> TRUE, deleted |-> {listing[i] : i \in DOMAIN listing} \ io.failed]

\* the objects adapter a selects for deletion: the local adapter the .json
\* files that parse and whose created_at is before the cutoff, the cloud
\* adapters every object of the folder the provider created before the cutoff
CleanupSelected(a, files, folderId, cutoff) ==
    IF a = Local
    THEN {f \in files : f.typed /\ f.parsable /\ f.data.created_at < cutoff}
    ELSE {f \in files : f.parent = folderId /\ f.createdTime < cutoff}

\* cleanupOldResults of adapter a (the three adapters differ in the selection)
CleanupOf(a, files, folderId, t, daysToKeep, io) ==
    IF io.list THEN [ok |-> FALSE, count |-> 0, files |-> files]
    ELSE LET selected == CleanupSelected(a, files, folderId, CutoffDate(t, daysToKeep))
             listing == IF a = Local
                        THEN LocalListing(selected)
                        ELSE SortSeq(SetToSeq(selected), OlderIdFirst)
             r == DeleteAll(listing, io)
         IN  [ ok |-> r.ok,
               count |-> IF r.ok THEN Cardinality(r.deleted) ELSE 0,
               files |-> files \ r.deleted ]

NoCleanup == [ called |-> FALSE, daysToKeep |-> Missing, io |-> NoFailure,
               ok |-> FALSE, count |-> 0, before |-> {} ]

\* lastStore: "none", or how the last storeTestResult call ended
NoStore == "none"
NoRead == [ op |-> "none", filters |-> NoCriteria, term |-> NoText,
            io |-> NoFailure, ok |-> FALSE, results |-> <<>>, summary |-> NoSummary ]

\* the folder id the active adapter has cached (none for local files)
FolderOf(a) == IF a \in CloudProviders THEN adapter[a].folderId ELSE 0

\* a facade operation can be called: the process is past module load, no
\* synchronous stretch is running
CanCall == Quiescent /\ storageProvider \in Providers

\* ways a storeTestResult call can fail: the write (upload) request, or, for
\* OneDrive, the PATCH that follows the upload
StoreFailures(a) == IF a = OneDrive THEN {"none", "write", "patch"} ELSE {"none", "write"}

\* storeTestResult(testData)
StoreTestResult(r, createdAt, failure) ==
    LET a == storageProvider
        d == TestData(r, createdAt)
        id == IF a \in CloudProviders THEN nextId[a] ELSE 0
        after == StoreOf(a, objects[a], FolderOf(a), id, d, now)
    IN  /\ CanCall
        /\ failure \in StoreFailures(a)
        /\ Len(stored) < MaxObjects
        /\ Cardinality({f \in objects[a] : f.parsable}) < MaxObjects
        /\ IF failure = "write"
           THEN UNCHANGED <<objects, nextId, stored, clean>>
           ELSE /\ objects' = [objects EXCEPT ![a] = after]
                /\ nextId' = IF a \in CloudProviders /\ Cardinality(after) > Cardinality(objects[a])
                             THEN [nextId EXCEPT ![a] = @ + 1] ELSE nextId
                /\ stored' = IF failure = "none" THEN Append(stored, <<d, now>>) ELSE stored
                /\ clean' = (clean /\ failure = "none")
        /\ lastStore' = IF failure = "none" THEN "returned" ELSE "threw"
        /\ lastRead' = NoRead
        /\ lastCleanup' = NoCleanup
        /\ UNCHANGED now
        /\ UNCHANGED lifecycleVars

\* an object that is not JSON, of a JSON type by its name or mimeType, is put
\* into the active provider's container by something other than this program
InjectCorrupt ==
    LET a == storageProvider
        k == Cardinality({f \in objects[a] : ~f.parsable}) + 1
        id == IF a \in CloudProviders THEN nextId[a] ELSE 0
    IN  /\ CanCall
        /\ k <= MaxCorrupt
        \* ids are not reused: an object put in after a cleanup has a new one
        /\ a \in CloudProviders => nextId[a] <= MaxObjects + MaxCorrupt
        /\ objects' = [objects EXCEPT ![a] =
                          @ \cup {CorruptObject(id, OtherName(k), FolderOf(a), now, TRUE)}]
        /\ nextId' = IF a \in CloudProviders THEN [nextId EXCEPT ![a] = @ + 1] ELSE nextId
        /\ clean' = FALSE
        /\ lastStore' = NoStore
        /\ lastRead' = NoRead
        /\ lastCleanup' = NoCleanup
        /\ UNCHANGED <<now, stored>>
        /\ UNCHANGED lifecycleVars

\* time passes
Tick ==
    /\ now < MaxTime
    /\ now' = now + 1
    /\ lastRead' = NoRead
    /\ lastCleanup' = NoCleanup
    /\ UNCHANGED <<objects, nextId, stored, clean, lastStore>>
    /\ UNCHANGED lifecycleVars

\* the provider's part in a read of the active container: the listing request
\* fails, or it succeeds and the download of at most one object fails
ReadFailures(a, filters) ==
    { [list |-> TRUE, failed |-> {}, dates |-> TRUE] }
    \cup [ list : {FALSE}, failed : {{}} \cup {{f} : f \in objects[a]},
           dates : IF a = OneDrive /\ (filters.startDate # NoDate \/ filters.endDate # NoDate)
                   THEN BOOLEAN ELSE {TRUE} ]

\* One caller, one call at a time: lastRead holds what the last read returned
\* until the next write or tick.  A read leaves every container as it is, so
\* a read that follows a read sees what the first one saw.
NoReadHeld == lastRead.op = "none"

\* getTestResults(filters)
GetTestResults(filters, io) ==
    LET a == storageProvider
        r == GetTestResultsOf(a, objects[a], FolderOf(a), filters, io)
    IN  /\ CanCall
        /\ NoReadHeld
        /\ io \in ReadFailures(a, filters)
        /\ lastRead' = [ op |-> "getTestResults", filters |-> filters, term |-> NoText,
                         io |-> io, ok |-> r.ok, results |-> r.value,
                         summary |-> NoSummary ]
        /\ lastCleanup' = NoCleanup
        /\ UNCHANGED <<now, objects, nextId, stored, clean, lastStore>>
        /\ UNCHANGED lifecycleVars

\* searchTestResults(searchTerm)
SearchTestResults(searchTerm, io) ==
    LET a == storageProvider
        r == SearchTestResultsOf(a, objects[a], FolderOf(a), searchTerm, io)
    IN  /\ CanCall
        /\ NoReadHeld
        /\ io \in ReadFailures(a, NoCriteria)
        /\ lastRead' = [ op |-> "searchTestResults", filters |-> NoCriteria,
                         term |-> searchTerm, io |-> io, ok |-> r.ok,
                         results |-> r.value, summary |-> NoSummary ]
        /\ lastCleanup' = NoCleanup
        /\ UNCHANGED <<now, objects, nextId, stored, clean, lastStore>>
        /\ UNCHANGED lifecycleVars

\* getAnalytics(filters)
GetAnalytics(filters, io) ==
    LET a == storageProvider
        r == GetAnalyticsOf(a, objects[a], FolderOf(a), filters, io)
    IN  /\ CanCall
        /\ NoReadHeld
        /\ io \in ReadFailures(a, filters)
        /\ lastRead' = [ op |-> "getAnalytics", filters |-> filters, term |-> NoText,
                         io |-> io, ok |-> r.ok, results |-> <<>>,
                         summary |-> IF r.ok THEN r.value ELSE NoSummary ]
        /\ lastCleanup' = NoCleanup
        /\ UNCHANGED <<now, objects, nextId, stored, clean, lastStore>>
        /\ UNCHANGED lifecycleVars

\* cleanupOldResults(daysToKeep)
CleanupOldResults(daysToKeep, io) ==
    LET a == storageProvider
        r == CleanupOf(a, objects[a], FolderOf(a), now, daysToKeep, io)
    IN  /\ CanCall
        /\ NoReadHeld
        /\ io \in ReadFailures(a, NoCriteria)
        /\ objects' = [objects EXCEPT ![a] = r.files]
        /\ clean' = (clean /\ r.files = objects[a])
        /\ lastCleanup' = [ called |-> TRUE, daysToKeep |-> daysToKeep, io |-> io,
                            ok |-> r.ok, count |-> r.count, before |-> objects[a] ]
        /\ lastStore' = NoStore
        /\ lastRead' = NoRead
        /\ UNCHANGED <<now, nextId, stored>>
        /\ UNCHANGED lifecycleVars

\* getStorageInfo of adapter a.  The local adapter reads the directory and
\* stats every .json file, with no catch per file; the cloud adapters send
\* one list request.  Of the answer the model keeps fileCount and oldestFile
\* (objects carry no size); the local adapter reports no oldest file.
GetStorageInfoOf(a, files, folderId, io) ==
    IF io.list \/ (a = Local /\ io.failed # {}) THEN Throw
    ELSE LET listed == IF a = Local THEN {f \in files : f.typed}
                       ELSE {f \in files : f.parent = folderId}
             times == {f.createdTime : f \in listed}
         IN  Ok([ fileCount |-> Cardinality(listed),
                  oldestFile |-> IF a = Local \/ listed = {} THEN Null
                                 ELSE CHOOSE t \in times : \A u \in times : t <= u ])

\* a getStorageInfo that answers a failure by installing the local adapter
GetStorageInfoOrFallBack(io) ==
    LET a == storageProvider
        r == GetStorageInfoOf(a, objects[a], FolderOf(a), io)
    IN  /\ CanCall
        /\ NoReadHeld
        /\ io \in ReadFailures(a, NoCriteria)
        /\ lastRead' = [ op |-> "getStorageInfo", filters |-> NoCriteria, term |-> NoText,
                         io |-> io, ok |-> r.ok, results |-> <<>>,
                         summary |-> IF r.ok THEN r.value ELSE NoSummary ]
        /\ lastCleanup' = NoCleanup
        /\ providerName' = IF r.ok THEN providerName ELSE Local
        /\ storageProvider' = IF r.ok THEN storageProvider ELSE Local
        /\ UNCHANGED <<now, objects, nextId, stored, clean, lastStore>>
        /\ UNCHANGED <<env, pc, adapter, inv, folders, startup, sw, switches>>

\* getStorageInfo()
GetStorageInfo(io) ==
    LET a == storageProvider
        r == GetStorageInfoOf(a, objects[a], FolderOf(a), io)
    IN  /\ CanCall
        /\ NoReadHeld
        /\ io \in ReadFailures(a, NoCriteria)
        /\ lastRead' = [ op |-> "getStorageInfo", filters |-> NoCriteria, term |-> NoText,
                         io |-> io, ok |-> r.ok, results |-> <<>>,
                         summary |-> IF r.ok THEN r.value ELSE NoSummary ]
        /\ lastCleanup' = NoCleanup
        /\ UNCHANGED <<now, objects, nextId, stored, clean, lastStore>>
        /\ UNCHANGED lifecycleVars

StorageNext ==
    \/ \E r \in RecordPool, createdAt \in 0..now, failure \in {"none", "write", "patch"} :
          StoreTestResult(r, createdAt, failure)
    \/ InjectCorrupt
    \/ Tick
    \/ \E filters \in Criteria : \E io \in ReadFailures(storageProvider, filters) :
          GetTestResults(filters, io)
    \/ \E searchTerm \in SearchTerms : \E io \in ReadFailures(storageProvider, NoCriteria) :
          SearchTestResults(searchTerm, io)
    \/ \E filters \in Criteria : \E io \in ReadFailures(storageProvider, filters) :
          GetAnalytics(filters, io)

\* no record stored yet, the clock at its start
StorageInit ==
    /\ now = 0
    /\ objects = [a \in Providers |-> {}]
    /\ nextId = [a \in CloudProviders |-> 1]
    /\ stored = <<>>
    /\ clean = TRUE
    /\ lastStore = NoStore
    /\ lastRead = NoRead
    /\ lastCleanup = NoCleanup

\* an environment that names provider a and holds every credential
EnvironmentFor(a) ==
    [ STORAGE_PROVIDER |-> a,
      GOOGLE_DRIVE_CREDENTIALS |-> TRUE, GOOGLE_APPLICATION_CREDENTIALS |-> TRUE,
      ONEDRIVE_TENANT_ID |-> TRUE, ONEDRIVE_CLIENT_ID |-> TRUE,
      ONEDRIVE_CLIENT_SECRET |-> TRUE,
      googleCredentialsFile |-> TRUE, oneDriveCredentialsFile |-> TRUE ]

\* The facade after a startup that named provider a and succeeded, each cloud
\* adapter having found the one existing "QA Dashboard" folder (a state the
\* life cycle reaches, see ReadyReachable).
ReadyWith(a) ==
    /\ env = EnvironmentFor(a)
    /\ providerName = a
    /\ storageProvider = a
    /\ pc = [startup |-> "Ready", switch |-> "Idle"]
    /\ adapter = [c \in CloudProviders |-> [client |-> TRUE, folderId |-> 1]]
    /\ inv = [c \in CloudProviders |->
                [s \in Slots |-> IF s = "ctor" THEN "resolved" ELSE "idle"]]
    /\ folders = [c \in CloudProviders |-> 1]
    /\ startup = [NoStartup EXCEPT !.endName = a, !.endProvider = a]
    /\ sw = NoSwitch
    /\ switches = 0

\* no function is looked at on its own
NotCalled == [called |-> FALSE, ok |-> FALSE, value |-> <<>>]
Called(r) == [called |-> TRUE, ok |-> r.ok, value |-> r.value]
FunctionsIdle == arg = <<>> /\ out = NotCalled

Init == LifecycleInit /\ StorageInit /\ FunctionsIdle

Next == LifecycleNext /\ UNCHANGED <<storageVars, functionVars>>

\* the storage operations of a facade that is ready
StoreInit == (\E a \in Providers : ReadyWith(a)) /\ StorageInit /\ FunctionsIdle

StoreNext == StorageNext /\ UNCHANGED functionVars

\* -------------------------------------------- the aggregation on its own

\* records as getTestResults may return them: every status of the enum, one
\* outside it, execution times present and missing
AnalyticsPool ==
    { TestData(r, 0) : r \in RecordPool }
    \cup { TestData([ test_name |-> LoginTest, status |-> st, execution_time |-> t,
                      framework |-> Jest, team_member_name |-> Bob,
                      project_name |-> Web ], 0) :
             <<st, t>> \in { <<Skipped, Missing>>, <<Blocked, 4>>,
                             <<Flaky, 3>>, <<Passed, Missing>> } }

RECURSIVE ListsUpTo(_, _)
\* the sequences over S of length at most n
ListsUpTo(S, n) ==
    IF n = 0 THEN {<<>>}
    ELSE LET shorter == ListsUpTo(S, n - 1)
         IN  shorter \cup {Append(q, x) : q \in {p \in shorter : Len(p) = n - 1}, x \in S}

\* getAnalytics, from `const analytics = {` to `return analytics`, on the
\* list `results`
Aggregating ==
    /\ ~out.called
    /\ out' = Called(Ok(Aggregate(arg)))
    /\ UNCHANGED <<arg, lifecycleVars, storageVars>>

AnalyticsInit ==
    /\ ReadyWith(Local)
    /\ StorageInit
    /\ arg \in ListsUpTo(AnalyticsPool, MaxListLen)
    /\ out = NotCalled

AnalyticsNext == Aggregating

SpecAnalytics == AnalyticsInit /\ [][AnalyticsNext]_vars

\* getAnalytics of adapter a, from `const analytics = {` to
\* `return analytics`, on the list arg; out collects the summaries, adapter
\* by adapter
Summarize(a) ==
    /\ a \notin DOMAIN out.value
    /\ out' = Called(Ok([b \in DOMAIN out.value \cup {a} |->
                            IF b = a THEN AggregateOf(a, arg) ELSE out.value[b]]))
    /\ UNCHANGED <<arg, lifecycleVars, storageVars>>

SummariesNext == \E a \in Providers : Summarize(a)

SpecSummaries == AnalyticsInit /\ [][SummariesNext]_vars

\* ------------------------------------------ the object names on their own

\* characters test names are made of: letters of both cases, a digit, and
\* characters outside [A-Za-z0-9]
NameAlphabet == {"a", "Z", "7", "-", " ", "/", "_", "."}

TestNames == ListsUpTo(NameAlphabet, MaxNameLen)

\* a record with the given test_name
NamedRecord(testName) ==
    TestData([ test_name |-> testName, status |-> Passed, execution_time |-> 10,
               framework |-> Jest, team_member_name |-> Ann, project_name |-> Web ], 0)

\* the name of the object storeTestResult of adapter a creates in an empty
\* container at time ms
StoredName(a, testName, ms) ==
    LET folderId == IF a = Local THEN 0 ELSE 1
        files == StoreOf(a, {}, folderId, folderId, NamedRecord(testName), ms)
    IN  (CHOOSE f \in files : TRUE).name

\* storeTestResult of adapter a is called with arg at the time arg.ms; out
\* collects the object names, adapter by adapter
GenerateName(a) ==
    /\ a \notin DOMAIN out.value
    /\ out' = Called(Ok([b \in DOMAIN out.value \cup {a} |->
                            IF b = a THEN StoredName(a, arg.test_name, arg.ms)
                            ELSE out.value[b]]))
    /\ UNCHANGED <<arg, lifecycleVars, storageVars>>

NamesInit ==
    /\ ReadyWith(Local)
    /\ StorageInit
    /\ arg \in [test_name : TestNames, ms : 0..MaxTime]
    /\ out = NotCalled

NamesNext == \E a \in Providers : GenerateName(a)

SpecNames == NamesInit /\ [][NamesNext]_vars

\* ------------------------------------- two stores of differently named records

\* a letter and two characters outside [A-Za-z0-9]
SeparatorAlphabet == {"a", "-", "/"}

\* the fields of a record with the given test_name
NamedResult(testName) ==
    [ test_name |-> testName, status |-> Passed, execution_time |-> 10,
      framework |-> Jest, team_member_name |-> Ann, project_name |-> Web ]

\* arg holds two different test names; the facade is ready, its container
\* empty
TwoNamesInit ==
    /\ \E a \in Providers : ReadyWith(a)
    /\ StorageInit
    /\ arg \in { p \in ListsUpTo(SeparatorAlphabet, MaxNameLen)
                       \X ListsUpTo(SeparatorAlphabet, MaxNameLen) : p[1] # p[2] }
    /\ out = NotCalled

\* storeTestResult is called for the first name and then for the second, the
\* clock may advance between them, getTestResults({}) is called at any time
TwoNamesNext ==
    /\ \/ \E i \in 1..2 : /\ Len(stored) = i - 1
                          /\ StoreTestResult(NamedResult(arg[i]), 0, "none")
       \/ Tick
       \/ GetTestResults(NoCriteria, NoFailure)
    /\ UNCHANGED functionVars

SpecTwoNames == TwoNamesInit /\ [][TwoNamesNext]_vars

SpecStore == StoreInit /\ [][StoreNext]_vars

\* the writes of a facade that is ready: stores, objects from outside, and
\* cleanups
RetentionNext ==
    \/ \E r \in RecordPool, createdAt \in 0..now, failure \in {"none", "write", "patch"} :
          StoreTestResult(r, createdAt, failure)
    \/ InjectCorrupt
    \/ Tick
    \/ \E daysToKeep \in DaysToKeepValues :
          \E io \in ReadFailures(storageProvider, NoCriteria) :
             CleanupOldResults(daysToKeep, io)

CleanupNext == RetentionNext /\ UNCHANGED functionVars

SpecCleanup == StoreInit /\ [][CleanupNext]_vars

Spec == Init /\ [][Next]_vars

\* ------------------------------- the operations of a facade that may switch

\* getProviderInfo() is called; lastRead holds what it returned
GetProviderInfoCall ==
    /\ CanCall
    /\ NoReadHeld
    /\ lastRead' = [ op |-> "getProviderInfo", filters |-> NoCriteria, term |-> NoText,
                     io |-> NoFailure, ok |-> TRUE, results |-> <<>>,
                     summary |-> GetProviderInfo ]
    /\ lastCleanup' = NoCleanup
    /\ UNCHANGED <<now, objects, nextId, stored, clean, lastStore>>
    /\ UNCHANGED lifecycleVars

\* a provider request is answered, or it fails
RequestFailures == {NoFailure, [list |-> TRUE, failed |-> {}, dates |-> TRUE]}

\* the seven operations of the facade, each succeeding and failing
OperationsNext ==
    \/ \E r \in RecordPool, failure \in {"none", "write", "patch"} :
          StoreTestResult(r, now, failure)
    \/ \E io \in RequestFailures : GetTestResults(NoCriteria, io)
    \/ \E io \in RequestFailures : SearchTestResults(Bob, io)
    \/ \E io \in RequestFailures : GetAnalytics(NoCriteria, io)
    \/ \E io \in ReadFailures(storageProvider, NoCriteria) : CleanupOldResults(0, io)
    \/ \E io \in ReadFailures(storageProvider, NoCriteria) : GetStorageInfo(io)
    \/ GetProviderInfoCall

\* a switchProvider call and the steps that continue it
SwitchTask ==
    \/ \E newProvider \in SwitchArguments : SwitchProvider(newProvider)
    \/ InitializeProvider("switch")
    \/ Fallback("switch")
    \/ \E a \in CloudProviders : ListResponse(a, "switch")

\* the operations are called while the clock advances and switchProvider
\* calls come and go
FacadeNext ==
    \/ OperationsNext /\ UNCHANGED functionVars
    \/ Tick /\ UNCHANGED functionVars
    \/ SwitchTask /\ UNCHANGED <<storageVars, functionVars>>

SpecFacade == StoreInit /\ [][FacadeNext]_vars

\* --------------------------------- a read that interleaves with the writes

\* arg holds the getTestResults({}) call in flight: the objects its list
\* request returned, the position of its download loop, the results so far,
\* and the objects cleanups removed while it ran
NoCall == [ phase |-> "idle", listing |-> <<>>, next |-> 1, got |-> <<>>,
            removed |-> {} ]

\* getTestResults({}) up to its first await.  The local adapter reads with
\* synchronous calls only: its read runs to the end in one stretch.  A cloud
\* adapter sends the list request; the answer holds the objects of that
\* moment.
ListFiles ==
    LET a == storageProvider
        files == objects[a]
    IN  /\ CanCall
        /\ arg.phase = "idle"
        /\ arg' = IF a = Local
                  THEN [ phase |-> "returned", listing |-> LocalListing(files),
                         next |-> 1,
                         got |-> LocalGetTestResults(files, NoCriteria, NoFailure).value,
                         removed |-> {} ]
                  ELSE [ phase |-> "reading",
                         listing |->
                            IF a = GoogleDrive
                            THEN Take(ListedNewestFirst(
                                        {f \in files : GDriveQuery(f, FolderOf(a), NoCriteria)}),
                                      GDrivePageSize)
                            ELSE ListedNewestFirst(
                                    {f \in files :
                                        OneDriveQuery(f, FolderOf(a), NoCriteria, NoFailure)}),
                         next |-> 1, got |-> <<>>, removed |-> {} ]
        /\ UNCHANGED <<out, lifecycleVars, storageVars>>

\* the download loop of a cloud adapter, one file: the content is what the
\* object holds now; a file that is gone or does not parse is skipped
DownloadFile ==
    LET a == storageProvider
        file == arg.listing[arg.next]
        current == {f \in objects[a] : f.id = file.id /\ f.parsable}
    IN  /\ CanCall
        /\ arg.phase = "reading"
        /\ arg.next <= Len(arg.listing)
        /\ arg' = [arg EXCEPT
                     !.next = @ + 1,
                     !.got = IF current = {} THEN @
                             ELSE Append(@, Entry((CHOOSE f \in current : TRUE).data,
                                                  file.id, file.name, file.createdTime))]
        /\ UNCHANGED <<out, lifecycleVars, storageVars>>

\* the loop is through: the results are returned
ReturnResults ==
    /\ arg.phase = "reading"
    /\ arg.next > Len(arg.listing)
    /\ arg' = [arg EXCEPT !.phase = "returned"]
    /\ UNCHANGED <<out, lifecycleVars, storageVars>>

\* a cleanupOldResults call; what it removes while a read runs is noted
CleanupDuringRead(daysToKeep, io) ==
    /\ CleanupOldResults(daysToKeep, io)
    /\ arg' = IF arg.phase = "reading"
              THEN [arg EXCEPT !.removed =
                       @ \cup (objects[storageProvider] \ objects'[storageProvider])]
              ELSE arg
    /\ UNCHANGED out

InterleavedInit ==
    /\ \E a \in Providers : ReadyWith(a)
    /\ StorageInit
    /\ arg = NoCall
    /\ out = NotCalled

InterleavedNext ==
    \/ ListFiles
    \/ DownloadFile
    \/ ReturnResults
    \/ \E r \in RecordPool, createdAt \in 0..now, failure \in {"none", "write"} :
          StoreTestResult(r, createdAt, failure) /\ UNCHANGED functionVars
    \/ \E daysToKeep \in DaysToKeepValues :
          \E io \in ReadFailures(storageProvider, NoCriteria) :
             CleanupDuringRead(daysToKeep, io)
    \/ Tick /\ UNCHANGED functionVars

SpecInterleaved == InterleavedInit /\ [][InterleavedNext]_vars

\* --------------------------------------------------- the startup on its own

\* the steps of the startup initialize() call: its synchronous stretches and
\* the provider's answers to the adapter invocation it awaits
StartupTask ==
    \/ BeginInitialize
    \/ Select
    \/ InitializeProvider("startup")
    \/ Fallback("startup")
    \/ \E a \in CloudProviders : ListResponse(a, "startup")
    \/ \E a \in CloudProviders : CreateResponse(a, "startup")

\* the answers to the invocations the adapter constructors started
ConstructorTask ==
    \/ \E a \in CloudProviders : ListResponse(a, "ctor")
    \/ \E a \in CloudProviders : CreateResponse(a, "ctor")

StartupNext ==
    /\ StartupTask \/ ConstructorTask
    /\ UNCHANGED <<storageVars, functionVars>>

\* Node runs a synchronous stretch to its end once it is entered, and every
\* request sent to a provider is answered, by a response or by an error: a
\* step of the startup call that stays possible is taken.
SpecStartup ==
    /\ Init
    /\ [][StartupNext]_vars
    /\ WF_vars(StartupTask /\ UNCHANGED <<storageVars, functionVars>>)

\* ================================================================== claims

\* C1: when switchProvider(name) is called for a named provider and the
\* initialization of that provider fails, the call returns false and the
\* facade's provider name and adapter are those it had before the call (no
\* fallback to the local adapter).
C1_FailedSwitchLeavesProviderUntouched ==
    (sw.state = "returned" /\ sw.failed /\ sw.target # Undefined)
        => /\ sw.result = FALSE
           /\ sw.endName = sw.beforeName
           /\ sw.endProvider = sw.beforeProvider

GoogleCredentialsPresent(e) ==
    e.GOOGLE_DRIVE_CREDENTIALS \/ e.GOOGLE_APPLICATION_CREDENTIALS
OneDriveCredentialsPresent(e) ==
    e.ONEDRIVE_TENANT_ID /\ e.ONEDRIVE_CLIENT_ID /\ e.ONEDRIVE_CLIENT_SECRET

RecordOf(e) ==
    [ test_name |-> e.test_name, status |-> e.status,
      execution_time |-> e.execution_time, framework |-> e.framework,
      team_member_name |-> e.team_member_name, project_name |-> e.project_name,
      created_at |-> e.created_at ]

RecordSet(results) == {RecordOf(results[i]) : i \in DOMAIN results}

\* the last call was getTestResults, it returned, and no request of it failed
ReadReturned ==
    /\ lastRead.op = "getTestResults"
    /\ lastRead.ok
    /\ ~lastRead.io.list
    /\ lastRead.io.failed = {}

\* the parsable objects of the active container
ValidObjects == {f \in objects[storageProvider] : f.parsable}
CorruptObjects == {f \in objects[storageProvider] : ~f.parsable}

\* the entry the active adapter returns for object f
EntryOf(f) == IF storageProvider = Local THEN LocalEntry(f) ELSE CloudEntry(f)

\* the free-text term occurs, whatever the case, in a text field of the record
MatchesSearchTerm(d, term) ==
    LET In(v) == Includes(ToLowerCase(v), ToLowerCase(term))
    IN  In(d.test_name) \/ In(d.status) \/ In(d.framework)
        \/ In(d.team_member_name) \/ In(d.project_name)

\* the criteria fields that are supplied
Supplied(c) ==
    {k \in {"startDate", "endDate"} : c[k] # NoDate}
    \cup {k \in {"status", "teamMember", "project", "searchTerm"} : c[k] # NoText}

\* record d matches field k of criteria c
MatchesField(d, c, k) ==
    CASE k = "startDate" -> d.created_at >= c.startDate
      [] k = "endDate" -> d.created_at <= c.endDate
      [] k = "status" -> d.status = c.status
      [] k = "teamMember" -> d.team_member_name = c.teamMember
      [] k = "project" -> d.project_name = c.project
      [] k = "searchTerm" -> MatchesSearchTerm(d, c.searchTerm)

MatchesAll(d, c) == \A k \in Supplied(c) : MatchesField(d, c, k)
MatchesNone(d, c) == Supplied(c) # {} /\ \A k \in Supplied(c) : ~MatchesField(d, c, k)

\* the last record stored, the time of its store, and the name of its object
LastStored == stored[Len(stored)]
LastStoredName == ResultName(LastStored[2], LastStored[1].test_name)
TimesReturned(d, name) ==
    Cardinality({i \in DOMAIN lastRead.results :
                    /\ RecordOf(lastRead.results[i]) = RecordOf(d)
                    /\ lastRead.results[i].fileName = name})

\* C4: after a storeTestResult(record) that succeeded, a getTestResults(criteria)
\* that follows it with no other write between holds the record exactly once
\* when the criteria match all of the record's fields and does not hold it
\* when the criteria match none of them.
C4_RoundTrip ==
    (ReadReturned /\ lastStore = "returned"
        /\ Cardinality({i \in DOMAIN stored : stored[i] = LastStored}) = 1)
        => /\ MatchesAll(LastStored[1], lastRead.filters)
                => TimesReturned(LastStored[1], LastStoredName) = 1
           /\ MatchesNone(LastStored[1], lastRead.filters)
                => TimesReturned(LastStored[1], LastStoredName) = 0

RECURSIVE Replay(_, _)
\* the container of adapter b after the stores of the log, on an empty folder
Replay(b, log) ==
    IF log = <<>> THEN {}
    ELSE StoreOf(b, Replay(b, SubSeq(log, 1, Len(log) - 1)),
                 IF b = Local THEN 0 ELSE 1, IF b = Local THEN 0 ELSE Len(log),
                 log[Len(log)][1], log[Len(log)][2])

\* C7: for the same sequence of stored records and the same criteria,
\* getTestResults returns the same set of records whichever of the three
\* adapters is active.
C7_SameResultsOnEveryAdapter ==
    (ReadReturned /\ lastRead.io.dates /\ clean)
        => \A b \in Providers :
              LET r == GetTestResultsOf(b, Replay(b, stored), IF b = Local THEN 0 ELSE 1,
                                        lastRead.filters, NoFailure)
              IN  r.ok /\ RecordSet(r.value) = RecordSet(lastRead.results)

\* C8: getTestResults honours the status, teamMember, project and free-text
\* searchTerm criteria on every adapter: a returned record matches every one
\* of them that is supplied (the date bounds are the subject of C9).
C8_EveryCriteriaFieldHonoured ==
    ReadReturned
        => \A i \in DOMAIN lastRead.results :
              \A k \in Supplied(lastRead.filters) \ {"startDate", "endDate"} :
                 MatchesField(lastRead.results[i], lastRead.filters, k)

\* C9: startDate and endDate are inclusive bounds on created_at and every
\* field is optional: a read with no criteria other than date bounds returns
\* every parsable stored record whose created_at lies within the supplied
\* bounds, the bounds themselves included, and with no criteria at all it
\* returns every parsable stored record.
C9_InclusiveDateBounds ==
    (ReadReturned /\ Supplied(lastRead.filters) \subseteq {"startDate", "endDate"})
        => \A f \in ValidObjects :
              MatchesAll(f.data, lastRead.filters)
                 => \E i \in DOMAIN lastRead.results : lastRead.results[i] = EntryOf(f)

\* the last call was a read of the given kind and no request of it failed
ReadWithoutFailure(op) ==
    /\ lastRead.op = op
    /\ ~lastRead.io.list
    /\ lastRead.io.failed = {}

\* C10: with any mix of valid records and non-JSON objects in the container,
\* and no request failing, getTestResults({}), searchTestResults and
\* getAnalytics return without throwing; getTestResults({}) returns each valid
\* record once and nothing else, searchTestResults returns valid records only,
\* and getAnalytics({}) counts the valid records.
C10_CorruptObjectsSkipped ==
    /\ (ReadWithoutFailure("getTestResults") /\ lastRead.filters = NoCriteria)
          => /\ lastRead.ok
             /\ Len(lastRead.results) = Cardinality(ValidObjects)
             /\ \A f \in ValidObjects :
                   \E i \in DOMAIN lastRead.results : lastRead.results[i] = EntryOf(f)
    /\ ReadWithoutFailure("searchTestResults")
          => /\ lastRead.ok
             /\ \A i \in DOMAIN lastRead.results :
                   \E f \in ValidObjects : lastRead.results[i] = EntryOf(f)
    /\ (ReadWithoutFailure("getAnalytics") /\ lastRead.filters = NoCriteria)
          => /\ lastRead.ok
             /\ lastRead.summary.totalTests = Cardinality(ValidObjects)
             /\ lastRead.summary.passedTests
                   = Cardinality({f \in ValidObjects : f.data.status = Passed})

\* getTestResults({}) on the local adapter returned the one valid record of a
\* container that also holds a non-JSON file
C10_Witness ==
    /\ ReadWithoutFailure("getTestResults")
    /\ lastRead.filters = NoCriteria
    /\ storageProvider = Local
    /\ CorruptObjects # {}
    /\ ValidObjects # {}
    /\ Len(lastRead.results) = 1

\* ------------------------------------------------ claims about read failures

\* the objects the last getTestResults asked the provider to download (the
\* local adapter reads every .json file, the cloud adapters every listed file)
Requested ==
    LET a == storageProvider
    IN  {f \in objects[a] :
            IF a = Local THEN f.typed
            ELSE IF a = GoogleDrive THEN GDriveQuery(f, FolderOf(a), lastRead.filters)
            ELSE OneDriveQuery(f, FolderOf(a), lastRead.filters, lastRead.io)}

\* C11: when the list request of a getTestResults call fails, or the download
\* of one of the objects it reads fails, the call throws: it does not return
\* a list.
C11_ReadFailurePropagates ==
    (lastRead.op = "getTestResults"
        /\ (lastRead.io.list \/ lastRead.io.failed \cap Requested # {}))
        => ~lastRead.ok

\* ------------------------------------------- claims about the aggregation

\* the aggregation of arg has returned
Aggregated == out.called /\ out.ok

\* the records of arg with the given status
WithStatus(st) == {i \in DOMAIN arg : arg[i].status = st}

\* C12: for every record list, lists with a status outside the enum
\* included, the aggregation returns, totalTests is the number of records and
\* passedTests + failedTests + skippedTests + blockedTests <= totalTests.
C12_CountsWithinTotal ==
    out.called
        => /\ out.ok
           /\ out.value.totalTests = Len(arg)
           /\ out.value.passedTests + out.value.failedTests
                 + out.value.skippedTests + out.value.blockedTests
                    <= out.value.totalTests

\* a list with a record of a status outside the enum was aggregated, and the
\* four counts do not add up to the total
C12_Witness ==
    /\ Aggregated
    /\ WithStatus(Flaky) # {}
    /\ WithStatus(Passed) # {}
    /\ out.value.passedTests + out.value.failedTests
          + out.value.skippedTests + out.value.blockedTests < out.value.totalTests

\* C13: the aggregation of the empty list returns totalTests 0, every status
\* count 0, successRate 0 (the number), avgExecutionTime 0 and empty
\* frameworks, projects and teamMembers.
C13_EmptySummary ==
    (out.called /\ arg = <<>>)
        => /\ out.ok
           /\ out.value = [ totalTests |-> 0, passedTests |-> 0, failedTests |-> 0,
                            skippedTests |-> 0, blockedTests |-> 0,
                            successRate |-> [text |-> FALSE, hundredths |-> 0],
                            frameworks |-> <<>>, projects |-> <<>>,
                            teamMembers |-> <<>>, avgExecutionTime |-> 0 ]

\* the empty list was aggregated
C13_Witness == Aggregated /\ arg = <<>> /\ out.value.totalTests = 0

\* C14: for every non-empty list each status count is the number of records
\* of that status, and successRate is the text of 100 * passed / total with
\* two decimals, the nearest hundredth.
C14_CountsAndSuccessRate ==
    (out.called /\ arg # <<>>)
        => /\ out.ok
           /\ out.value.totalTests = Len(arg)
           /\ out.value.passedTests = Cardinality(WithStatus(Passed))
           /\ out.value.failedTests = Cardinality(WithStatus(Failed))
           /\ out.value.skippedTests = Cardinality(WithStatus(Skipped))
           /\ out.value.blockedTests = Cardinality(WithStatus(Blocked))
           /\ out.value.successRate.text
           /\ LET h == out.value.successRate.hundredths
                   exact == 10000 * Cardinality(WithStatus(Passed))
                   n == Len(arg)
               IN  /\ 2 * (h * n - exact) <= n
                   /\ 2 * (exact - h * n) <= n

\* the list passed, passed, failed, skipped was aggregated to 4, 2, 1, 1 and
\* "50.00"
C14_Witness ==
    /\ Aggregated
    /\ [i \in DOMAIN arg |-> arg[i].status] = <<Passed, Passed, Failed, Skipped>>
    /\ out.value.totalTests = 4
    /\ out.value.passedTests = 2
    /\ out.value.failedTests = 1
    /\ out.value.skippedTests = 1
    /\ out.value.successRate = [text |-> TRUE, hundredths |-> 5000]

RECURSIVE TotalTime(_)
\* the execution times of the first k records of arg added up, a record
\* without one counting 0
TotalTime(k) ==
    IF k = 0 THEN 0
    ELSE TotalTime(k - 1)
         + (IF arg[k].execution_time = Missing THEN 0 ELSE arg[k].execution_time)

\* C15: for every non-empty list the aggregation returns and
\* avgExecutionTime is the mean of execution_time over all records, rounded
\* to the nearest integer (a half upwards), a record without execution_time
\* adding 0 to the sum and 1 to the divisor.
C15_AverageExecutionTime ==
    (out.called /\ arg # <<>>)
        => /\ out.ok
           /\ LET avg == out.value.avgExecutionTime
                   n == Len(arg)
               IN  /\ 2 * n * avg <= 2 * TotalTime(n) + n
                   /\ 2 * TotalTime(n) + n < 2 * n * (avg + 1)

\* a list with a record that has no execution_time and one that has was
\* aggregated, and the mean was rounded
C15_Witness ==
    /\ Aggregated
    /\ \E i \in DOMAIN arg : arg[i].execution_time = Missing
    /\ \E i \in DOMAIN arg : arg[i].execution_time > 0
    /\ out.value.avgExecutionTime * Len(arg) # TotalTime(Len(arg))

\* -------------------------------------------- claims about object names

AlnumChars == Range(UpperCase) \cup Range(LowerCase) \cup Range(Digits)

\* C19: the object name storeTestResult generates is
\* test-result-<epoch-ms>-<sanitized>.json, where <sanitized> has the length
\* of test_name, keeps every character of [A-Za-z0-9] in its place and has
\* '-' in the place of every other character; the three adapters generate
\* the same name for the same test_name and time.
C19_ObjectName ==
    \A a \in DOMAIN out.value :
       LET name == out.value[a]
       IN  /\ name.kind = "test-result"
           /\ name.ms = arg.ms
           /\ Len(name.tail) = Len(arg.test_name)
           /\ \A i \in DOMAIN arg.test_name :
                 name.tail[i] = IF arg.test_name[i] \in AlnumChars
                                THEN arg.test_name[i] ELSE "-"
           /\ \A i \in DOMAIN name.tail : name.tail[i] \in AlnumChars \cup {"-"}
           /\ \A b \in DOMAIN out.value : out.value[b] = name

\* the three adapters have generated the name of a test_name that holds
\* an underscore, another character outside [A-Za-z0-9] and one inside
C19_Witness ==
    /\ out.called
    /\ DOMAIN out.value = Providers
    /\ "_" \in Range(arg.test_name)
    /\ "/" \in Range(arg.test_name)
    /\ "Z" \in Range(arg.test_name)

\* ---------------------------------------------- claims about the facade

CleanupListed == lastCleanup.called /\ ~lastCleanup.io.list

\* what the cleanup removed from the active container
Removed == lastCleanup.before \ objects[storageProvider]

\* the stored records whose created_at is earlier than now minus daysToKeep
\* days (90 when none is given)
ExpiredRecords ==
    LET days == IF lastCleanup.daysToKeep = Missing THEN 90 ELSE lastCleanup.daysToKeep
    IN  {f \in lastCleanup.before : f.parsable /\ f.data.created_at < now - days}

\* C16: a cleanupOldResults(daysToKeep) in which no request fails deletes
\* exactly the stored records whose created_at is earlier than now minus
\* daysToKeep days, keeps every other object and returns the number of
\* records it deleted, on every adapter.
C16_CleanupDeletesExpiredRecords ==
    (CleanupListed /\ lastCleanup.io.failed = {})
        => /\ lastCleanup.ok
           /\ Removed = ExpiredRecords
           /\ objects[storageProvider] = lastCleanup.before \ ExpiredRecords
           /\ lastCleanup.count = Cardinality(ExpiredRecords)

\* the objects the adapter set out to delete
Attempted ==
    CleanupSelected(storageProvider, lastCleanup.before, FolderOf(storageProvider),
                    CutoffDate(now, lastCleanup.daysToKeep))

\* C17: a delete that fails does not abort cleanupOldResults: the call
\* returns, every other object it set out to delete is deleted, the object
\* whose delete failed is still there, and the returned count is the number
\* of objects deleted.
C17_CleanupBestEffort ==
    CleanupListed
        => /\ lastCleanup.ok
           /\ Removed = Attempted \ lastCleanup.io.failed
           /\ objects[storageProvider] \subseteq lastCleanup.before
           /\ lastCleanup.count = Cardinality(Removed)

\* a cleanup set out to delete two objects, the delete of one failed, the
\* other was deleted and the call returned 1
C17_Witness ==
    /\ CleanupListed
    /\ Cardinality(Attempted) = 2
    /\ lastCleanup.io.failed \subseteq Attempted
    /\ lastCleanup.io.failed # {}
    /\ Cardinality(Removed) = 1
    /\ lastCleanup.ok
    /\ lastCleanup.count = 1

\* ------------------------------------------------ claims about the search

\* term occurs, whatever the case, in test_name, team_member_name or
\* project_name of record d
MatchesSearch(d, term) ==
    LET In(v) == Includes(ToLowerCase(v), ToLowerCase(term))
    IN  In(d.test_name) \/ In(d.team_member_name) \/ In(d.project_name)

\* C18: searchTestResults(term), no request failing, returns exactly the
\* stored parsable records in which term occurs, compared case-insensitively,
\* in test_name, team_member_name or project_name.
C18_SearchMatchesThreeFields ==
    ReadWithoutFailure("searchTestResults")
        => /\ lastRead.ok
           /\ {lastRead.results[i] : i \in DOMAIN lastRead.results}
                 = {EntryOf(f) : f \in {g \in ValidObjects : MatchesSearch(g.data, lastRead.term)}}

\* ------------------------------------------ claims about stored objects

\* the active container holds an object with the name and the content the
\* i-th successful storeTestResult call wrote
StillStored(i) ==
    \E f \in objects[storageProvider] :
       /\ f.parsable
       /\ f.name = ResultName(stored[i][2], stored[i][1].test_name)
       /\ RecordOf(f.data) = RecordOf(stored[i][1])

\* C21: a stored record is never changed in place: with no cleanup run,
\* every record a storeTestResult call has stored is still in the container
\* with the content it was written with; no later storeTestResult call
\* replaces or removes it.
C21_StoredRecordsImmutable ==
    \A i \in DOMAIN stored : StillStored(i)

\* ------------------------------------------ claims about the three adapters

\* C25: the three adapters compute the same summary: for every record list,
\* the analytics objects the local, the Google Drive and the OneDrive
\* getAnalytics build from it are equal in every field.
C25_SameSummaryOnEveryAdapter ==
    \A a \in DOMAIN out.value, b \in DOMAIN out.value :
       /\ DOMAIN out.value[a] = DOMAIN out.value[b]
       /\ \A field \in DOMAIN out.value[a] : out.value[a][field] = out.value[b][field]

C25_Witness ==
    /\ DOMAIN out.value = Providers
    /\ Len(arg) >= 3
    /\ out.value[Local].passedTests >= 1
    /\ out.value[Local].passedTests < out.value[Local].totalTests
    /\ out.value[Local].successRate.hundredths % 100 # 0

\* C29: storeTestResult is all-or-nothing: a call that reports a failure
\* leaves the container with the objects it held before the call.
C29_FailedStoreLeavesContainer ==
    [][lastStore' = "threw" => objects' = objects]_vars

\* C30: two storeTestResult calls that succeeded for records with different
\* test_name values leave two distinct objects in the container, and a
\* getTestResults({}) after them returns both records, also when the two
\* calls fall into the same millisecond.
C30_DifferentNamesBothKept ==
    (Len(stored) = 2 /\ stored[1][1].test_name # stored[2][1].test_name)
    => /\ Cardinality(ValidObjects) = 2
       /\ ReadReturned =>
             \A i \in 1..2 : RecordOf(stored[i][1]) \in RecordSet(lastRead.results)

\* ------------------------------------------ claims about initialization

\* the initialize() invocations of adapter a that have been started
Started(a) == {s \in Slots : inv[a][s] # "idle"}

\* C23: during a startup (no switchProvider call has been made), at most one
\* invocation of an adapter's initialize routine has been started: the
\* routine is not started once by the adapter's construction and again by
\* the facade.
C23_InitializeStartedOnce ==
    switches = 0 => \A a \in CloudProviders : Cardinality(Started(a)) <= 1

\* C27: whenever a facade operation can be invoked, after construction and
\* also while startup or a switchProvider call awaits the provider, the
\* adapter it is dispatched to is not null and is initialized: a cloud
\* adapter has its client and its container id.
C27_DispatchedToInitializedAdapter ==
    Quiescent =>
       /\ storageProvider \in Providers
       /\ storageProvider \in CloudProviders =>
             /\ adapter[storageProvider].client
             /\ adapter[storageProvider].folderId # 0

\* C28: however an adapter's initialize invocations interleave, at most one
\* results container exists in an account, and a cached container id, once
\* set, is not replaced by another one.
C28_OneContainerOneId ==
    [][\A a \in CloudProviders :
          /\ folders'[a] <= 1
          /\ adapter[a].folderId # 0 => adapter'[a].folderId = adapter[a].folderId]_vars

\* the steps the startup call may take from one position to the next;
\* "Awaiting" is the part of Initializing spent waiting for the adapter
StartupEdges ==
    { <<"Unselected", "Selecting">>, <<"Selecting", "Initializing">>,
      <<"Initializing", "Awaiting">>, <<"Initializing", "Ready">>,
      <<"Initializing", "FallingBack">>, <<"Awaiting", "Ready">>,
      <<"Awaiting", "FallingBack">>, <<"FallingBack", "Ready">> }

\* the facade holds an adapter that can serve calls
UsableAdapter ==
    /\ storageProvider \in Providers
    /\ providerName = storageProvider
    /\ storageProvider \in CloudProviders =>
          adapter[storageProvider].client /\ adapter[storageProvider].folderId # 0

C22_OnlyInitializationWritesProviderState ==
    [][(providerName' # providerName \/ storageProvider' # storageProvider)
          => pc' # pc]_vars

C22_Witness ==
    /\ sw.state = "returned"
    /\ sw.beforeProvider # sw.endProvider
    /\ storageProvider = sw.endProvider
    /\ providerName = sw.endName
    /\ lastRead.op = "getStorageInfo"
    /\ ~lastRead.ok
    /\ stored # <<>>

\* ------------------------------------------ claims about interleaved calls

\* C26: a getTestResults({}) call that interleaves with storeTestResult and
\* cleanupOldResults calls returns a snapshot: every record it returns had
\* been stored when the call returned, and every record that was in the
\* container when the call began and was not deleted during the call is
\* among the results.
C26_ReadObservesSnapshot ==
    arg.phase = "returned" =>
       /\ \A i \in DOMAIN arg.got :
             \E j \in DOMAIN stored : RecordOf(arg.got[i]) = RecordOf(stored[j][1])
       /\ \A k \in DOMAIN arg.listing :
             (arg.listing[k].parsable /\ arg.listing[k] \notin arg.removed)
                => RecordOf(arg.listing[k].data) \in RecordSet(arg.got)

====
